---- MODULE Spec2Model ----
(***************************************************************************)
(* Model of the suno-archive synchronisation engine: the POST /run handler *)
(* (routes/archive.js), the DownloadManager (fetchLibrary, downloadItem,   *)
(* downloadBatch, worker) and the LibraryDB catalog (utils/database.js).   *)
(*                                                                         *)
(* One action is one run-to-completion segment of the JavaScript event     *)
(* loop: the code between two awaits runs atomically, other workers run    *)
(* only at an await.                                                       *)
(***************************************************************************)
EXTENDS Integers, Sequences, FiniteSets, TLC

\* ------------------------------------------------------------------ bounds
MaxId == 2          \* item ids are 1..MaxId
MaxPages == 3       \* pages of the remote listing (lister specification)
MaxPageLen == 1     \* items per page of the remote listing
MaxItems == 4       \* media files (item x format) a listing of the download specifications asks for
MaxRuns == 2        \* sync runs in one behaviour
MaxFaults == 2      \* failed requests / failed catalog writes in one behaviour
MaxScript == 4      \* attempts for which the network's answer to one request is drawn
MaxLegacy == 2      \* clips in library.json
MaxTitleLen == 2    \* characters of an item's title
MaxIdLen == 2       \* characters of an item's id (file name derivation)

\* ------------------------------------------------------- program constants
concurrency == 3
PageSize == 20

Ids == 1..MaxId
Workers == 1..concurrency

\* ------------------------------------------------------------ pure helpers
Range(s) == {s[i] : i \in 1..Len(s)}

SeqsUpTo(S, n) == UNION {[1..k -> S] : k \in 0..n}

RECURSIVE Flatten(_)
Flatten(ps) == IF ps = <<>> THEN <<>> ELSE Head(ps) \o Flatten(Tail(ps))

\* Math.ceil(limit / 20)
CeilDiv(a, b) == (a + b - 1) \div b

\* clips.filter(c => !existingIds.has(c.id)).length
NewClipsOnPage(clips, known) == Cardinality({i \in 1..Len(clips) : clips[i] \notin known})

EARLY_STOP_THRESHOLD_Late == 2 + 1
EARLY_STOP_THRESHOLD == 2

\* lib.items.filter(i => !oldIds.has(i.id))
DeltaUnfiltered(items, old) == items
Delta(items, old) == SelectSeq(items, LAMBDA i : i \notin old)

\* (variant: the slice of archive.js 80-83 is left out)
TruncateOff(items, limit) == items
\* newItems.slice(0, limit) when limit is set
Truncate(items, limit) ==
    IF limit > 0 /\ Len(items) > limit THEN SubSeq(items, 1, limit) ELSE items

\* the formats of one item: 'both' ? ['mp3','wav'] : [format]
Formats(format) == IF format = "both" THEN <<"mp3", "wav">> ELSE <<format>>

\* LibraryDB: the clips table, PRIMARY KEY id, INSERT OR REPLACE
InsertNoReplace(tbl, row) == tbl \cup {row}
InsertDropped(tbl, row) == tbl
Insert(tbl, row) == {r \in tbl : r.id # row.id} \cup {row}

\* SELECT id FROM clips
getAllIdsNone(tbl) == {}
getAllIds(tbl) == {r.id : r \in tbl}

\* SELECT COUNT(*) FROM clips
count(tbl) == Cardinality(tbl)

\* insertMany(clips): one INSERT OR REPLACE per clip, in one transaction; the rows
\* it writes carry the payload of the legacy file (data -1)
RECURSIVE insertMany(_, _)
insertMany(tbl, clips) ==
    IF clips = <<>> THEN tbl
    ELSE insertMany(Insert(tbl, [id |-> Head(clips), data |-> -1]), Tail(clips))

\* migrateJsonToDb on a library.json in state lg and a clips table tbl: whether it
\* threw, the count it returned, the table it left and the rows it wrote.
\* ENOENT: readFile throws with err.code ENOENT; EACCES: readFile throws another
\* error; badjson: JSON.parse throws; ok: an array of clips; nocopy: an array of
\* clips, and copyFile to library.json.backup throws after the rows are written
migrateJsonToDbRethrows(lg, tbl) ==
    [threw |-> lg.state # "ok",
     count |-> IF lg.state = "ok" THEN count(insertMany(tbl, lg.clips)) ELSE 0,
     tbl |-> insertMany(tbl, lg.clips),
     writes |-> Len(lg.clips)]
migrateJsonToDb(lg, tbl) ==
    IF lg.state = "ENOENT"
    THEN [threw |-> FALSE, count |-> 0, tbl |-> tbl, writes |-> 0]
    ELSE IF lg.state \in {"EACCES", "badjson"}
    THEN [threw |-> TRUE, count |-> 0, tbl |-> tbl, writes |-> 0]
    ELSE [threw |-> lg.state = "nocopy",
          count |-> IF lg.state = "nocopy" THEN 0 ELSE count(insertMany(tbl, lg.clips)),
          tbl |-> insertMany(tbl, lg.clips),
          writes |-> Len(lg.clips)]

\* const shouldFullSync = fullSync || oldIds.size === 0
ShouldFullSyncFlagOnly(fullSync, oldIds) == fullSync
ShouldFullSync(fullSync, oldIds) == fullSync \/ oldIds = {}

\* queue.shift(): the entry taken and the queue left
ShiftKeep(q) == q
Shift(q) == Tail(q)

\* new DownloadManager({ ..., maxRetries: 3, ... })
maxRetries == 3

\* what one `await fetch(url, options)` ends with: a response (of any status) or
\* a thrown transport error
Responses == {"2xx", "4xx", "5xx"}
TransportErrors == {"ECONNRESET", "ETIMEDOUT"}
AttemptOutcomes == Responses \cup TransportErrors

\* Math.min(1000 * Math.pow(2, attempt), 10000)
Delay(attempt) == IF 1000 * 2^attempt < 10000 THEN 1000 * 2^attempt ELSE 10000

\* the guard of the retry in the catch block (line 119)
MayRetryOnceMore(attempt) == attempt <= maxRetries
MayRetry(attempt) == attempt < maxRetries

\* ---------------------------------------------------------------- file names
\* strings are sequences of characters
Untitled == <<"u", "n", "t", "i", "t", "l", "e", "d">>

\* the character class [/\\?%*:|"<>]
InvalidChars == {"/", "\\", "?", "%", "*", ":", "|", "\"", "<", ">"}

\* .replace(/[/\\?%*:|"<>]/g, '-')
ReplaceInvalid(t) == [i \in 1..Len(t) |-> IF t[i] \in InvalidChars THEN "-" ELSE t[i]]

\* the characters \s matches, of those that occur in titles
Whitespace == {" "}

\* .replace(/\s+/g, ' ')
RECURSIVE CollapseWhitespace(_)
CollapseWhitespace(t) ==
    IF t = <<>> THEN <<>>
    ELSE IF Head(t) \in Whitespace
    THEN IF Len(t) > 1 /\ t[2] \in Whitespace
         THEN CollapseWhitespace(Tail(t))
         ELSE <<" ">> \o CollapseWhitespace(Tail(t))
    ELSE <<Head(t)>> \o CollapseWhitespace(Tail(t))

\* .trim()
RECURSIVE TrimStart(_)
TrimStart(t) == IF t # <<>> /\ Head(t) \in Whitespace THEN TrimStart(Tail(t)) ELSE t

RECURSIVE TrimEnd(_)
TrimEnd(t) ==
    IF t # <<>> /\ t[Len(t)] \in Whitespace THEN TrimEnd(SubSeq(t, 1, Len(t) - 1)) ELSE t

Trim(t) == TrimEnd(TrimStart(t))

\* .slice(0, 100)
TitleSlice == 100
Slice(t, n) == IF Len(t) > n THEN SubSeq(t, 1, n) ELSE t

\* (item.title || 'untitled') and the chain of lines 138-141
SafeTitle(title) ==
    Slice(Trim(CollapseWhitespace(ReplaceInvalid(IF title = <<>> THEN Untitled ELSE title))),
          TitleSlice)

\* `${safeTitle} - ${item.id}`
FileBaseTitleOnly(title, id) == SafeTitle(title)
FileBase(title, id) == SafeTitle(title) \o <<" ", "-", " ">> \o id

\* `${fileBase}.${fmt}`
FormatChars(fmt) == IF fmt = "mp3" THEN <<"m", "p", "3">> ELSE <<"w", "a", "v">>
FileName(base, fmt) == base \o <<".">> \o FormatChars(fmt)

VARIABLES
    remote,       \* the remote listing: remote[p+1] is the clips array of page p
    noUrl,        \* ids of the items that carry no audio_url
    legacy,       \* the user's library.json: whether it can be read, and its clips (ids)
    catalog,      \* the clips table of library.db (rows [id, data])
    files,        \* the download directory: <<id, fmt>> of the files on disk
    faults,       \* failed requests and catalog writes so far
    run,          \* number of POST /run requests started
    runLog,       \* how each earlier run ended, with the result it returned
    job,          \* jobManager's status for the user
    pc,           \* position of the POST /run handler
    opts,         \* req.body: fullSync, limit, format, verifyFiles
    migration,    \* what this run's migrateJsonToDb did and returned
    oldIds0,      \* the ids read from the catalog when the run started
    existingIds,  \* oldIds / dm.existingIds (one Set object)
    shouldFullSync,
    lister,       \* locals of fetchLibrary
    newItems,     \* the delta handed to downloadBatch
    queue,        \* downloadBatch's queue: indices into newItems
    progress,     \* dm.progress
    errors,       \* dm.errors (item ids)
    wk,           \* the workers: position and the locals of downloadItem
    taken,        \* taken[i]: how often entry i of newItems was passed to downloadItem
    counted,      \* counted[i]: the increments of downloaded, failed, skipped made for entry i
    insertedIdx,  \* entries of newItems whose db.insert returned
    lostIdx,      \* entries of newItems whose db.insert threw
    rf,           \* one call of retryFetch: the network's answers and the call's locals
    second,       \* the handler of a POST /run that arrived while a run was under way
    names,        \* two items and the base filenames downloadItem derives for them
    shape         \* one listing response and the clips fetchLibrary takes from it

vars == <<remote, noUrl, legacy, catalog, files, faults, run, runLog, job, pc, opts,
          migration, oldIds0,
          existingIds, shouldFullSync, lister, newItems, queue, progress, errors, wk,
          taken, counted, insertedIdx, lostIdx, rf, second, names, shape>>

envVars == <<remote, noUrl, legacy>>

\* state that POST /run and its workers leave alone
sideVars == <<rf, second, names, shape>>

\* the clips array the listing endpoint returns for page p (0-based)
PageAt(p) == IF p + 1 <= Len(remote) THEN remote[p + 1] ELSE <<>>

\* number of pages before the first page that returns zero items
RECURSIVE PagesBeforeEmpty(_)
PagesBeforeEmpty(p) == IF PageAt(p) = <<>> THEN p ELSE PagesBeforeEmpty(p + 1)

\* the items of the pages before the first empty page
ListedItems == Flatten(SubSeq(remote, 1, PagesBeforeEmpty(0)))

\* ------------------------------------------------------------ initial state
ListerInit == [allItems |-> <<>>, page |-> 0, hasMore |-> TRUE,
               consecutiveExistingPages |-> 0, reqPages |-> 0, earlyStopped |-> FALSE]

ProgressInit == [total |-> 0, downloaded |-> 0, failed |-> 0, skipped |-> 0]

\* migrateJsonToDb not called
MigrationNone == [called |-> FALSE, threw |-> FALSE, count |-> 0, writes |-> 0]

WorkerIdle == [pc |-> "idle", item |-> 0, fi |-> 0, successCount |-> 0,
               formatErrors |-> <<>>, success |-> FALSE, outcomes |-> <<>>]

MemInit ==
    /\ job = "none"
    /\ pc = "idle"
    /\ migration = MigrationNone
    /\ oldIds0 = {}
    /\ existingIds = {}
    /\ shouldFullSync = FALSE
    /\ lister = ListerInit
    /\ newItems = <<>>
    /\ queue = <<>>
    /\ progress = ProgressInit
    /\ errors = <<>>
    /\ wk = [w \in Workers |-> WorkerIdle]
    /\ taken = <<>>
    /\ counted = <<>>
    /\ insertedIdx = {}
    /\ lostIdx = {}

\* retryFetch not called
RfIdle == [pc |-> "idle", script |-> <<>>, attempt |-> 0, calls |-> 0,
           delays |-> <<>>, result |-> "none"]

\* no second request
SecondNone == [pc |-> "none", oldIds |-> {}, shouldFullSync |-> FALSE]

\* downloadItem's file names not derived
NamesIdle == [pc |-> "idle", a |-> [title |-> <<>>, id |-> <<>>],
              b |-> [title |-> <<>>, id |-> <<>>], baseA |-> <<>>, baseB |-> <<>>]

\* a field of a response body that is not there
Absent == [present |-> FALSE, items |-> <<>>]

\* no listing response read
ShapeIdle == [pc |-> "idle", data |-> [clips |-> Absent, songs |-> Absent,
                                       data |-> Absent, items |-> Absent],
              clips |-> <<>>, hasMore |-> TRUE]

SideInit == rf = RfIdle /\ second = SecondNone /\ names = NamesIdle /\ shape = ShapeIdle

\* readFile(libPath) of a user who has no library.json throws ENOENT
NoLegacy == [state |-> "ENOENT", clips |-> <<>>]

Rows(K) == {[id |-> i, data |-> 0] : i \in K}

Pages == SeqsUpTo(Ids, MaxPageLen)

\* lister specification: every listing of up to MaxPages pages, every catalog
InitList ==
    /\ remote \in SeqsUpTo(Pages, MaxPages)
    /\ noUrl = {}
    /\ legacy = NoLegacy
    /\ \E k \in 0..MaxId : catalog = Rows(1..k)
    /\ files = {}
    /\ faults = 0
    /\ run = 0
    /\ runLog = <<>>
    /\ opts \in [fullSync : BOOLEAN, limit : {0, 1, PageSize + 1}, format : {"mp3"},
                 verifyFiles : {FALSE}]
    /\ MemInit
    /\ SideInit

\* ------------------------------------------------------------ POST /run
\* archive.js 14-72: job created, legacy file migrated, ids read from the catalog,
\* DownloadManager built
StartRun ==
    /\ run' = run + 1
    /\ LET m == migrateJsonToDb(legacy, catalog)
       IN  /\ migration' = [called |-> TRUE, threw |-> m.threw, count |-> m.count,
                            writes |-> m.writes]
           /\ catalog' = m.tbl
           /\ IF m.threw
              THEN /\ job' = "failed"
                   /\ runLog' = Append(runLog, [status |-> "failed", downloaded |-> 0,
                                                failed |-> 0, skipped |-> 0, total |-> 0,
                                                writeErrors |-> 0])
                   /\ oldIds0' = {}
                   /\ existingIds' = {}
                   /\ shouldFullSync' = FALSE
                   /\ pc' = "done"
              ELSE /\ job' = "running"
                   /\ oldIds0' = getAllIds(m.tbl)
                   /\ existingIds' = getAllIds(m.tbl)
                   /\ shouldFullSync' = ShouldFullSync(opts.fullSync, getAllIds(m.tbl))
                   /\ pc' = "list"
                   /\ UNCHANGED runLog
    /\ lister' = ListerInit
    /\ newItems' = <<>>
    /\ queue' = <<>>
    /\ progress' = ProgressInit
    /\ errors' = <<>>
    /\ wk' = [w \in Workers |-> WorkerIdle]
    /\ taken' = <<>>
    /\ counted' = <<>>
    /\ insertedIdx' = {}
    /\ lostIdx' = {}
    /\ UNCHANGED <<envVars, sideVars, files, faults, opts>>

\* the first POST /run of the process
RunStart ==
    /\ pc = "idle"
    /\ run = 0
    /\ StartRun

\* a later POST /run: after the earlier request has ended, or after a restart
RunAgain ==
    /\ pc \in {"idle", "done"}
    /\ run > 0
    /\ run < MaxRuns
    /\ StartRun

\* ------------------------------------------------------------ fetchLibrary
\* maxPages = limit ? ceil(limit / 20) : Infinity; TRUE when page < maxPages
BelowMaxPages(p) == opts.limit = 0 \/ p < CeilDiv(opts.limit, PageSize)

\* the guard of the smart pagination branch (line 81)
SmartPaginationAlways == existingIds # {}
SmartPagination == ~shouldFullSync /\ existingIds # {}

\* consecutiveExistingPages after a page with newClipsOnPage new clips (84-95)
NextConsecutiveNoReset(cons, newClipsOnPage) ==
    IF newClipsOnPage = 0 THEN cons + 1 ELSE cons
NextConsecutive(cons, newClipsOnPage) ==
    IF newClipsOnPage = 0 THEN cons + 1 ELSE 0

\* one iteration of the while loop with a 2xx response
FetchPage ==
    /\ pc = "list"
    /\ lister.hasMore /\ BelowMaxPages(lister.page)
    /\ LET clips == PageAt(lister.page)
           items == lister.allItems \o clips
           allKnown == SmartPagination /\ NewClipsOnPage(clips, existingIds) = 0
           cons == IF ~SmartPagination THEN lister.consecutiveExistingPages
                   ELSE NextConsecutive(lister.consecutiveExistingPages,
                                        NewClipsOnPage(clips, existingIds))
           early == allKnown /\ cons >= EARLY_STOP_THRESHOLD
           limitHit == opts.limit # 0 /\ Len(items) >= opts.limit
       IN  IF clips = <<>>
           THEN lister' = [lister EXCEPT !.hasMore = FALSE, !.reqPages = @ + 1]
           ELSE lister' = [allItems |-> items,
                           page |-> lister.page + 1,
                           hasMore |-> ~early /\ ~limitHit,
                           consecutiveExistingPages |-> cons,
                           reqPages |-> lister.reqPages + 1,
                           earlyStopped |-> early]
    /\ UNCHANGED <<envVars, sideVars, catalog, files, faults, run, runLog, job, pc, opts, migration, oldIds0,
                   existingIds, shouldFullSync, newItems, queue, progress, errors, wk,
                   taken, counted, insertedIdx, lostIdx>>

\* (variant: the failed page request is taken for the end of the listing)
ListFailSwallowed ==
    /\ pc = "list"
    /\ lister.hasMore /\ BelowMaxPages(lister.page)
    /\ faults < MaxFaults
    /\ faults' = faults + 1
    /\ lister' = [lister EXCEPT !.hasMore = FALSE, !.reqPages = @ + 1]
    /\ UNCHANGED <<envVars, sideVars, catalog, files, run, runLog, job, pc, opts, migration, oldIds0,
                   existingIds, shouldFullSync, newItems, queue, progress, errors, wk,
                   taken, counted, insertedIdx, lostIdx>>

\* a page request that ends the run: a non-2xx response (line 61) or a transport
\* error that outlives retryFetch; both throw out of fetchLibrary into the catch
\* of POST /run (archive.js 113-116)
ListFail ==
    /\ pc = "list"
    /\ lister.hasMore /\ BelowMaxPages(lister.page)
    /\ faults < MaxFaults
    /\ faults' = faults + 1
    /\ lister' = [lister EXCEPT !.reqPages = @ + 1]
    /\ job' = "failed"
    /\ runLog' = Append(runLog, [status |-> "failed", downloaded |-> 0, failed |-> 0,
                                 skipped |-> 0, total |-> 0, writeErrors |-> 0])
    /\ pc' = "done"
    /\ UNCHANGED <<envVars, sideVars, catalog, files, run, opts, migration, oldIds0, existingIds,
                   shouldFullSync, newItems, queue, progress, errors, wk, taken, counted,
                   insertedIdx, lostIdx>>

\* ------------------------------------------------------------ downloadItem
WorkerDone == [WorkerIdle EXCEPT !.pc = "done"]

\* no counter was incremented for an entry
NotCounted == [downloaded |-> 0, failed |-> 0, skipped |-> 0]

\* downloadItem from its call to its first await, for entry idx with item id:
\* the worker's new locals and the increment of progress.skipped
StartItemNoReturn(id, idx) ==
    LET base == [WorkerIdle EXCEPT !.item = idx]
    IN  IF opts.verifyFiles
        THEN [w |-> [base EXCEPT !.pc = "verify", !.fi = 1],
              skip |-> IF id \in noUrl THEN 1 ELSE 0]
        ELSE [w |-> [base EXCEPT !.pc = "fetch", !.fi = 1],
              skip |-> IF id \in noUrl THEN 1 ELSE 0]
StartItem(id, idx) ==
    LET base == [WorkerIdle EXCEPT !.item = idx]
    IN  IF id \in noUrl
        THEN [w |-> [base EXCEPT !.pc = "ret", !.success = FALSE], skip |-> 1]
        ELSE IF opts.verifyFiles
        THEN [w |-> [base EXCEPT !.pc = "verify", !.fi = 1], skip |-> 0]
        ELSE [w |-> [base EXCEPT !.pc = "fetch", !.fi = 1], skip |-> 0]

\* one pass of `while (queue.length > 0) { item = queue.shift(); downloadItem(item) }`
\* up to the await: st = [queue, wk, skipped, taken, counted]
TakeNext(st, w, items) ==
    IF st.queue = <<>>
    THEN [st EXCEPT !.wk[w] = WorkerDone]
    ELSE LET idx == Head(st.queue)
             s == StartItem(items[idx], idx)
         IN  [queue |-> Shift(st.queue),
              wk |-> [st.wk EXCEPT ![w] = s.w],
              skipped |-> st.skipped + s.skip,
              taken |-> [st.taken EXCEPT ![idx] = @ + 1],
              counted |-> [st.counted EXCEPT ![idx].skipped = @ + s.skip]]

\* downloadBatch 229-235: worker(queue) is called concurrency times, each call
\* runs synchronously to its first await
\* (variant: the loop of downloadBatch runs while i <= concurrency)
RECURSIVE LaunchOneMore(_, _, _)
LaunchOneMore(w, st, items) ==
    IF w > concurrency + 1 THEN st ELSE LaunchOneMore(w + 1, TakeNext(st, w, items), items)
RECURSIVE Launch(_, _, _)
Launch(w, st, items) ==
    IF w > concurrency THEN st ELSE Launch(w + 1, TakeNext(st, w, items), items)

\* fetchLibrary returns; archive.js 77-93: delta, limit, progress.total, downloadBatch
LibraryDone ==
    /\ pc = "list"
    /\ ~(lister.hasMore /\ BelowMaxPages(lister.page))
    /\ LET items == Truncate(Delta(lister.allItems, existingIds), opts.limit)
           n == Len(items)
           st == Launch(1, [queue |-> [i \in 1..n |-> i], wk |-> wk, skipped |-> 0,
                            taken |-> [i \in 1..n |-> 0],
                            counted |-> [i \in 1..n |-> NotCounted]], items)
       IN  /\ newItems' = items
           /\ IF n > 0
              THEN /\ queue' = st.queue
                   /\ wk' = st.wk
                   /\ taken' = st.taken
                   /\ counted' = st.counted
                   /\ progress' = [progress EXCEPT !.total = n, !.skipped = st.skipped]
                   /\ pc' = "batch"
              ELSE /\ progress' = [progress EXCEPT !.total = 0]
                   /\ pc' = "finish"
                   /\ UNCHANGED <<queue, wk, taken, counted>>
    /\ UNCHANGED <<envVars, sideVars, catalog, files, faults, run, runLog, job, opts, migration, oldIds0,
                   existingIds, shouldFullSync, lister, errors, insertedIdx, lostIdx>>

ItemOf(w) == newItems[wk[w].item]

\* the loop 151-160 has checked format fi of n and found its file: it ends with
\* allFilesExist = true when that was the last format
AllCheckedAfterFirst(fi, n) == TRUE
AllChecked(fi, n) == fi >= n

\* verifyFiles: one `await fs.access(filePath)` of the loop 151-160 and what follows it
WorkerVerify(w) ==
    /\ pc = "batch"
    /\ wk[w].pc = "verify"
    /\ LET fmts == Formats(opts.format)
           exists == <<ItemOf(w), fmts[wk[w].fi]>> \in files
       IN  IF exists /\ ~AllChecked(wk[w].fi, Len(fmts))
           THEN /\ wk' = [wk EXCEPT ![w].fi = @ + 1]
                /\ UNCHANGED <<progress, counted>>
           ELSE IF exists
           THEN /\ wk' = [wk EXCEPT ![w].pc = "ret", ![w].success = TRUE]
                /\ progress' = [progress EXCEPT !.skipped = @ + 1]
                /\ counted' = [counted EXCEPT ![wk[w].item].skipped = @ + 1]
           ELSE /\ wk' = [wk EXCEPT ![w].pc = "fetch", ![w].fi = 1]
                /\ UNCHANGED <<progress, counted>>
    /\ UNCHANGED <<envVars, sideVars, catalog, files, faults, run, runLog, job, pc, opts, migration, oldIds0,
                   existingIds, shouldFullSync, lister, newItems, queue, errors, taken,
                   insertedIdx, lostIdx>>

\* what one retryFetch of a media URL ends with: a 2xx response, a 4xx response,
\* another non-2xx response, or the transport error of the last attempt
FetchOutcomes == {"ok", "4xx", "5xx", "neterr"}

\* the per-format error recorded for an outcome (lines 193-198 and 206-207)
FormatError(fmt, o) == [fmt |-> fmt, kind |-> IF o = "4xx" THEN "soft" ELSE "hard"]

\* the item-level verdict after the format loop (lines 213-226)
ItemSucceededAll(successCount, nFormats) == successCount = nFormats
ItemSucceededAlways(successCount, nFormats) == TRUE
ItemSucceeded(successCount, nFormats) == successCount > 0

\* one iteration of the format loop 172-210 (sleep, retryFetch, writeFile) and, after
\* the last format, the item-level accounting 213-226
WorkerFetch(w, o) ==
    /\ pc = "batch"
    /\ wk[w].pc = "fetch"
    /\ IF o = "ok" THEN UNCHANGED faults
       ELSE faults < MaxFaults /\ faults' = faults + 1
    /\ LET fmts == Formats(opts.format)
           fmt == fmts[wk[w].fi]
           sc == IF o = "ok" THEN wk[w].successCount + 1 ELSE wk[w].successCount
           fe == IF o = "ok" THEN wk[w].formatErrors
                 ELSE Append(wk[w].formatErrors, FormatError(fmt, o))
           loc == [wk[w] EXCEPT !.successCount = sc, !.formatErrors = fe,
                                !.outcomes = Append(@, o)]
       IN  /\ files' = IF o = "ok" THEN files \cup {<<ItemOf(w), fmt>>} ELSE files
           /\ IF wk[w].fi < Len(fmts)
              THEN /\ wk' = [wk EXCEPT ![w] = [loc EXCEPT !.fi = @ + 1]]
                   /\ UNCHANGED <<progress, errors, counted>>
              ELSE IF ItemSucceeded(sc, Len(fmts))
              THEN /\ wk' = [wk EXCEPT ![w] = [loc EXCEPT !.pc = "ret", !.success = TRUE]]
                   /\ progress' = [progress EXCEPT !.downloaded = @ + 1]
                   /\ counted' = [counted EXCEPT ![wk[w].item].downloaded = @ + 1]
                   /\ UNCHANGED errors
              ELSE /\ wk' = [wk EXCEPT ![w] = [loc EXCEPT !.pc = "ret", !.success = FALSE]]
                   /\ progress' = [progress EXCEPT !.failed = @ + 1]
                   /\ counted' = [counted EXCEPT ![wk[w].item].failed = @ + 1]
                   /\ errors' = Append(errors, ItemOf(w))
    /\ UNCHANGED <<envVars, sideVars, catalog, run, runLog, job, pc, opts, migration, oldIds0, existingIds,
                   shouldFullSync, lister, newItems, queue, taken, insertedIdx, lostIdx>>

\* ------------------------------------------------------------ worker
\* (variant: existingIds.add(item.id) stands before db.insert(item))
WorkerResumeAddFirst(w, insOk) ==
    /\ pc = "batch"
    /\ wk[w].pc = "ret"
    /\ IF wk[w].success /\ insOk
       THEN /\ catalog' = Insert(catalog, [id |-> ItemOf(w), data |-> wk[w].item])
            /\ existingIds' = existingIds \cup {ItemOf(w)}
            /\ insertedIdx' = insertedIdx \cup {wk[w].item}
            /\ UNCHANGED <<faults, lostIdx>>
       ELSE /\ IF wk[w].success
               THEN /\ faults < MaxFaults
                    /\ faults' = faults + 1
                    /\ lostIdx' = lostIdx \cup {wk[w].item}
                    /\ existingIds' = existingIds \cup {ItemOf(w)}
               ELSE insOk /\ UNCHANGED <<faults, lostIdx, existingIds>>
            /\ UNCHANGED <<catalog, insertedIdx>>
    /\ LET st == TakeNext([queue |-> queue, wk |-> wk, skipped |-> progress.skipped,
                           taken |-> taken, counted |-> counted], w, newItems)
       IN  /\ queue' = st.queue
           /\ wk' = st.wk
           /\ taken' = st.taken
           /\ counted' = st.counted
           /\ progress' = [progress EXCEPT !.skipped = st.skipped]
    /\ UNCHANGED <<envVars, sideVars, files, run, runLog, job, pc, opts, migration, oldIds0, shouldFullSync,
                   lister, newItems, errors>>

\* worker 244-256 after `await this.downloadItem(...)`: the catalog write of a
\* successful item (insOk: db.insert returned, else it threw and was logged), then
\* the loop test and the next queue.shift()
WorkerResume(w, insOk) ==
    /\ pc = "batch"
    /\ wk[w].pc = "ret"
    /\ IF wk[w].success /\ insOk
       THEN /\ catalog' = Insert(catalog, [id |-> ItemOf(w), data |-> wk[w].item])
            /\ existingIds' = existingIds \cup {ItemOf(w)}
            /\ insertedIdx' = insertedIdx \cup {wk[w].item}
            /\ UNCHANGED <<faults, lostIdx>>
       ELSE /\ IF wk[w].success
               THEN /\ faults < MaxFaults
                    /\ faults' = faults + 1
                    /\ lostIdx' = lostIdx \cup {wk[w].item}
               ELSE insOk /\ UNCHANGED <<faults, lostIdx>>
            /\ UNCHANGED <<catalog, existingIds, insertedIdx>>
    /\ LET st == TakeNext([queue |-> queue, wk |-> wk, skipped |-> progress.skipped,
                           taken |-> taken, counted |-> counted], w, newItems)
       IN  /\ queue' = st.queue
           /\ wk' = st.wk
           /\ taken' = st.taken
           /\ counted' = st.counted
           /\ progress' = [progress EXCEPT !.skipped = st.skipped]
    /\ UNCHANGED <<envVars, sideVars, files, run, runLog, job, pc, opts, migration, oldIds0, shouldFullSync,
                   lister, newItems, errors>>

\* (variant: the batch is awaited with Promise.race)
AllWorkersDoneAny == \E w \in Workers : wk[w].pc = "done"
\* await Promise.all(workers) has resolved (line 237)
AllWorkersDone == \A w \in Workers : wk[w].pc = "done"

\* archive.js 95-112: Promise.all resolved (or downloadBatch not called), the
\* result is built from db.count() and dm.getProgress(), the job is completed
Complete ==
    /\ pc = "finish" \/ (pc = "batch" /\ AllWorkersDone)
    /\ job' = "completed"
    /\ runLog' = Append(runLog, [status |-> "completed",
                                 downloaded |-> progress.downloaded,
                                 failed |-> progress.failed,
                                 skipped |-> progress.skipped,
                                 total |-> count(catalog),
                                 writeErrors |-> Cardinality(lostIdx)])
    /\ pc' = "done"
    /\ UNCHANGED <<envVars, sideVars, catalog, files, faults, run, opts, migration, oldIds0, existingIds,
                   shouldFullSync, lister, newItems, queue, progress, errors, wk, taken, counted,
                   insertedIdx, lostIdx>>

\* the process is terminated during a run: everything in memory is lost, the
\* catalog and the download directory stay as they are
Crash ==
    /\ pc \in {"list", "batch", "finish"}
    /\ runLog' = Append(runLog, [status |-> "aborted", downloaded |-> 0, failed |-> 0,
                                 skipped |-> 0, total |-> 0, writeErrors |-> 0])
    /\ job' = "none"
    /\ pc' = "idle"
    /\ migration' = MigrationNone
    /\ oldIds0' = {}
    /\ existingIds' = {}
    /\ shouldFullSync' = FALSE
    /\ lister' = ListerInit
    /\ newItems' = <<>>
    /\ queue' = <<>>
    /\ progress' = ProgressInit
    /\ errors' = <<>>
    /\ wk' = [w \in Workers |-> WorkerIdle]
    /\ taken' = <<>>
    /\ counted' = <<>>
    /\ insertedIdx' = {}
    /\ lostIdx' = {}
    /\ UNCHANGED <<envVars, sideVars, catalog, files, faults, run, opts>>

\* ------------------------------------------------------------ specifications
\* the lister alone
NextList == RunStart \/ FetchPage \/ ListFail \/ LibraryDone

SpecList == InitList /\ [][NextList]_vars

RECURSIVE SumLen(_)
SumLen(ps) == IF ps = <<>> THEN 0 ELSE Len(Head(ps)) + SumLen(Tail(ps))

\* listings of up to n items on non-empty pages
Listings(n) == {r \in SeqsUpTo(Pages \ {<<>>}, n) : SumLen(r) <= n}

\* one run with its downloads, with and without verifyFiles, for listings that
\* ask for up to MaxItems media files
Init ==
    /\ remote \in Listings(MaxItems)
    /\ noUrl \in {{}, {2}}
    /\ legacy = NoLegacy
    /\ \E K \in {{}, {1}} : catalog = Rows(K)
    /\ opts \in [fullSync : {FALSE}, limit : {0, 1}, format : {"mp3", "both"},
                 verifyFiles : BOOLEAN]
    /\ files \in IF opts.verifyFiles
                 THEN {{}, {<<2, "mp3">>}, {<<2, "mp3">>, <<2, "wav">>}}
                 ELSE {{}}
    /\ SumLen(remote) * Len(Formats(opts.format)) <= MaxItems
    /\ faults = 0
    /\ run = 0
    /\ runLog = <<>>
    /\ MemInit
    /\ SideInit

Next ==
    \/ RunStart
    \/ FetchPage
    \/ ListFail
    \/ LibraryDone
    \/ \E w \in Workers : WorkerVerify(w)
    \/ \E w \in Workers, o \in FetchOutcomes : WorkerFetch(w, o)
    \/ \E w \in Workers, insOk \in BOOLEAN : WorkerResume(w, insOk)
    \/ Complete

Spec == Init /\ [][Next]_vars

\* runs that follow one another, a run may be cut short by a restart
InitResume ==
    /\ remote \in Listings(MaxItems - 1)
    /\ noUrl \in {{}, {2}}
    /\ legacy = NoLegacy
    /\ \E K \in {{}, {1}} : catalog = Rows(K)
    /\ opts \in [fullSync : BOOLEAN, limit : {0, 1}, format : {"mp3"},
                 verifyFiles : BOOLEAN]
    /\ files = {}
    /\ faults = 0
    /\ run = 0
    /\ runLog = <<>>
    /\ MemInit
    /\ SideInit

NextResume == Next \/ RunAgain \/ Crash

SpecResume == InitResume /\ [][NextResume]_vars

\* ------------------------------------------------------------ retryFetch
\* retryFetch(url, options) is called (attempt = 1)
RetryFetchCall ==
    /\ rf.pc = "idle"
    /\ rf' = [rf EXCEPT !.pc = "try", !.attempt = 1]
    /\ UNCHANGED <<envVars, catalog, files, faults, run, runLog, job, pc, opts, migration, oldIds0,
                   existingIds, shouldFullSync, lister, newItems, queue, progress, errors,
                   wk, taken, counted, insertedIdx, lostIdx, second, names, shape>>

\* `await fetch(url, options)` settles: a response is returned as it is, an error
\* is retried after a delay or thrown (lines 115-126)
RetryFetchAttempt ==
    /\ rf.pc = "try"
    /\ rf.calls < Len(rf.script)
    /\ LET o == rf.script[rf.calls + 1]
       IN  rf' = IF o \in Responses
                 THEN [rf EXCEPT !.calls = @ + 1, !.pc = "returned", !.result = o]
                 ELSE IF MayRetry(rf.attempt)
                 THEN [rf EXCEPT !.calls = @ + 1, !.pc = "sleep",
                                 !.delays = Append(@, Delay(rf.attempt))]
                 ELSE [rf EXCEPT !.calls = @ + 1, !.pc = "thrown", !.result = o]
    /\ UNCHANGED <<envVars, catalog, files, faults, run, runLog, job, pc, opts, migration, oldIds0,
                   existingIds, shouldFullSync, lister, newItems, queue, progress, errors,
                   wk, taken, counted, insertedIdx, lostIdx, second, names, shape>>

\* `await this.sleep(delay)` is over: return this.retryFetch(url, options, attempt + 1)
RetryFetchAgain ==
    /\ rf.pc = "sleep"
    /\ rf' = [rf EXCEPT !.pc = "try", !.attempt = @ + 1]
    /\ UNCHANGED <<envVars, catalog, files, faults, run, runLog, job, pc, opts, migration, oldIds0,
                   existingIds, shouldFullSync, lister, newItems, queue, progress, errors,
                   wk, taken, counted, insertedIdx, lostIdx, second, names, shape>>

\* one call of retryFetch against every behaviour of the network over MaxScript
\* attempts
InitRetry ==
    /\ remote = <<>>
    /\ noUrl = {}
    /\ legacy = NoLegacy
    /\ catalog = {}
    /\ files = {}
    /\ faults = 0
    /\ run = 0
    /\ runLog = <<>>
    /\ opts = [fullSync |-> FALSE, limit |-> 0, format |-> "mp3", verifyFiles |-> FALSE]
    /\ MemInit
    /\ \E sc \in [1..MaxScript -> AttemptOutcomes] : rf = [RfIdle EXCEPT !.script = sc]
    /\ second = SecondNone
    /\ names = NamesIdle
    /\ shape = ShapeIdle

NextRetry == RetryFetchCall \/ RetryFetchAttempt \/ RetryFetchAgain

SpecRetry == InitRetry /\ [][NextRetry]_vars

\* ------------------------------------------------------------ migration
\* the states of library.json: absent, unreadable, not JSON, and an array of the
\* clips 1..k, backed up or not
LegacyFiles ==
    {[state |-> st, clips |-> <<>>] : st \in {"ENOENT", "EACCES", "badjson"}}
    \cup {[state |-> st, clips |-> [i \in 1..k |-> i]] :
              st \in {"ok", "nocopy"}, k \in 0..MaxLegacy}

\* the start of a run with and without a legacy file, and its listing
InitMigrate ==
    /\ remote \in SeqsUpTo(Pages \ {<<>>}, MaxPages - 1)
    /\ noUrl = {}
    /\ legacy \in LegacyFiles
    /\ \E K \in {{}, {MaxId}} : catalog = Rows(K)
    /\ files = {}
    /\ faults = 0
    /\ run = 0
    /\ runLog = <<>>
    /\ opts \in [fullSync : BOOLEAN, limit : {0, 1}, format : {"mp3"},
                 verifyFiles : {FALSE}]
    /\ MemInit
    /\ SideInit

SpecMigrate == InitMigrate /\ [][NextList]_vars

\* ------------------------------------------------------------ file names
\* titles as the remote API may send them: letters, blanks, characters that are
\* not allowed in file names; an absent title is the empty string
TitleChars == {"a", " ", "/"}
Titles == SeqsUpTo(TitleChars, MaxTitleLen)

\* ids as the remote API issues them (UUIDs): hexadecimal digits and '-'
IdChars == {"a", "-"}
ItemIds == SeqsUpTo(IdChars, MaxIdLen) \ {<<>>}

\* lines 137-143 of downloadItem for two items of a batch
DeriveFileBase ==
    /\ names.pc = "idle"
    /\ names' = [names EXCEPT !.pc = "done",
                              !.baseA = FileBase(names.a.title, names.a.id),
                              !.baseB = FileBase(names.b.title, names.b.id)]
    /\ UNCHANGED <<envVars, catalog, files, faults, run, runLog, job, pc, opts,
                   migration, oldIds0, existingIds, shouldFullSync, lister, newItems,
                   queue, progress, errors, wk, taken, counted, insertedIdx, lostIdx, rf, second, shape>>

InitNames ==
    /\ remote = <<>>
    /\ noUrl = {}
    /\ legacy = NoLegacy
    /\ catalog = {}
    /\ files = {}
    /\ faults = 0
    /\ run = 0
    /\ runLog = <<>>
    /\ opts = [fullSync |-> FALSE, limit |-> 0, format |-> "mp3", verifyFiles |-> FALSE]
    /\ MemInit
    /\ rf = RfIdle
    /\ second = SecondNone
    /\ shape = ShapeIdle
    /\ \E ta, tb \in Titles, ia, ib \in ItemIds :
           names = [NamesIdle EXCEPT !.a = [title |-> ta, id |-> ia],
                                     !.b = [title |-> tb, id |-> ib]]

SpecNames == InitNames /\ [][DeriveFileBase]_vars

\* ------------------------------------------------------------ a second request
\* jobManager.create(user): the registry's entry for the user after the call
jobManagerCreate(j) == "running"

\* the handler is between jobManager.create and jobManager.complete / fail
FirstRunning == pc \in {"list", "batch", "finish"}

\* archive.js 14-75 for a POST /run of the same user that arrives while the first
\* handler waits at an await: the handler looks at no job state, registers the
\* job, reads the ids of the Catalog and calls fetchLibrary of its own
\* DownloadManager
ConcurrentPost ==
    /\ FirstRunning
    /\ second.pc = "none"
    /\ LET m == migrateJsonToDb(legacy, catalog)
       IN  /\ catalog' = m.tbl
           /\ job' = IF m.threw THEN "failed" ELSE jobManagerCreate(job)
           /\ second' = IF m.threw THEN [SecondNone EXCEPT !.pc = "done"]
                         ELSE [pc |-> "list", oldIds |-> getAllIds(m.tbl),
                               shouldFullSync |->
                                   ShouldFullSync(opts.fullSync, getAllIds(m.tbl))]
    /\ UNCHANGED <<envVars, files, faults, run, runLog, pc, opts, migration, oldIds0,
                   existingIds, shouldFullSync, lister, newItems, queue, progress, errors,
                   wk, taken, counted, insertedIdx, lostIdx, rf, names, shape>>

\* the lister, the end of a run with nothing to download, and a second request
NextJobs == NextList \/ Complete \/ ConcurrentPost

SpecJobs == InitList /\ [][NextJobs]_vars

\* ------------------------------------------------------------ the limit
\* pages that hold more items than the smallest limit
LimitPages == SeqsUpTo(Ids, MaxPageLen + 1) \ {<<>>}

\* the lister and the delta for requests that set a limit: limits below, at and
\* above the length of a page, and one above the page size of the service
InitLimit ==
    /\ \E k \in 0..MaxPages : remote \in [1..k -> LimitPages]
    /\ SumLen(remote) <= MaxItems
    /\ noUrl = {}
    /\ legacy = NoLegacy
    /\ \E K \in {{}, {1}} : catalog = Rows(K)
    /\ files = {}
    /\ faults = 0
    /\ run = 0
    /\ runLog = <<>>
    /\ opts \in [fullSync : BOOLEAN, limit : (1..(MaxPageLen + 1)) \cup {PageSize + 1},
                 format : {"mp3"}, verifyFiles : {FALSE}]
    /\ MemInit
    /\ SideInit

SpecLimit == InitLimit /\ [][NextList]_vars

\* ------------------------------------------------------------ draining the queue
\* one run whose delta is the whole listing, with and without verifyFiles
InitDrain ==
    /\ remote \in Listings(MaxItems)
    /\ noUrl \in {{}, {2}}
    /\ legacy = NoLegacy
    /\ catalog = {}
    /\ opts \in [fullSync : {FALSE}, limit : {0}, format : {"mp3"}, verifyFiles : BOOLEAN]
    /\ files = (IF opts.verifyFiles THEN {<<2, "mp3">>} ELSE {})
    /\ faults = 0
    /\ run = 0
    /\ runLog = <<>>
    /\ MemInit
    /\ SideInit

\* every await of a worker is resumed: fs.access, the media request and the file
\* write of downloadItem settle, and the event loop runs the continuation of a
\* settled promise
DrainFairness ==
    \A w \in Workers :
        /\ WF_vars(WorkerVerify(w))
        /\ WF_vars(\E o \in FetchOutcomes : WorkerFetch(w, o))
        /\ WF_vars(\E insOk \in BOOLEAN : WorkerResume(w, insOk))

SpecDrain == InitDrain /\ [][Next]_vars /\ DrainFairness

\* ------------------------------------------------------------ the job's lifecycle
\* how `await logger.init()` (archive.js 31) may settle: the log file of the run
\* is created, or its creation fails
LoggerInitOutcomes == {"resolved", "rejected"}

\* archive.js 14-31 when logger.init() rejects: the job was registered at line 23,
\* the await is outside the try of line 33, so the handler ends with the
\* rejection and neither jobManager.complete nor jobManager.fail is called
LoggerInitRejects ==
    /\ pc = "idle"
    /\ run = 0
    /\ "rejected" \in LoggerInitOutcomes
    /\ faults < MaxFaults
    /\ faults' = faults + 1
    /\ run' = run + 1
    /\ job' = jobManagerCreate(job)
    /\ pc' = "done"
    /\ UNCHANGED <<envVars, sideVars, catalog, files, runLog, opts, migration, oldIds0,
                   existingIds, shouldFullSync, lister, newItems, queue, progress, errors,
                   wk, taken, counted, insertedIdx, lostIdx>>

NextLifecycle == Next \/ LoggerInitRejects

\* the handler of POST /run is resumed after each of its awaits, and so are the
\* workers
LifecycleFairness ==
    /\ DrainFairness
    /\ WF_vars(RunStart \/ LoggerInitRejects)
    /\ WF_vars(FetchPage \/ ListFail)
    /\ WF_vars(LibraryDone)
    /\ WF_vars(Complete)

SpecLifecycle == InitDrain /\ [][NextLifecycle]_vars /\ LifecycleFairness

\* ------------------------------------------------------------ migration, run after run
\* runs that follow one another for a user with or without a legacy file; the
\* file is left in place by migrateJsonToDb (migrateToDb.js 29-34)
NextRemigrate ==
    \/ RunStart
    \/ RunAgain
    \/ FetchPage
    \/ ListFail
    \/ LibraryDone
    \/ \E w \in Workers, o \in FetchOutcomes : WorkerFetch(w, o)
    \/ \E w \in Workers, insOk \in BOOLEAN : WorkerResume(w, insOk)
    \/ Complete

SpecRemigrate == InitMigrate /\ [][NextRemigrate]_vars

\* ------------------------------------------------------------ the shape of a response
\* the fields of a response body that fetchLibrary looks at, in the order of line 67
FieldOrder == <<"clips", "songs", "data", "items">>

\* a field of a response body: absent, or an array of clips (which may be empty)
FieldValues ==
    {Absent} \cup {[present |-> TRUE, items |-> c] : c \in SeqsUpTo(Ids, MaxPageLen)}

\* JavaScript's truthiness of a field: undefined is falsy, every array is truthy,
\* the empty array too
Truthy(v) == v.present

\* const clips = data.clips || data.songs || data.data || data.items || []
ClipsOf(data) ==
    IF Truthy(data.clips) THEN data.clips.items
    ELSE IF Truthy(data.songs) THEN data.songs.items
    ELSE IF Truthy(data.data) THEN data.data.items
    ELSE IF Truthy(data.items) THEN data.items.items
    ELSE <<>>

\* lines 66-71 for one response body: the clips of the page, and hasMore
ReadResponse ==
    /\ shape.pc = "idle"
    /\ shape' = [shape EXCEPT !.pc = "read",
                              !.clips = ClipsOf(shape.data),
                              !.hasMore = (ClipsOf(shape.data) # <<>>)]
    /\ UNCHANGED <<envVars, catalog, files, faults, run, runLog, job, pc, opts, migration,
                   oldIds0, existingIds, shouldFullSync, lister, newItems, queue, progress,
                   errors, wk, taken, counted, insertedIdx, lostIdx, rf, second, names>>

InitShape ==
    /\ remote = <<>>
    /\ noUrl = {}
    /\ legacy = NoLegacy
    /\ catalog = {}
    /\ files = {}
    /\ faults = 0
    /\ run = 0
    /\ runLog = <<>>
    /\ opts = [fullSync |-> FALSE, limit |-> 0, format |-> "mp3", verifyFiles |-> FALSE]
    /\ MemInit
    /\ rf = RfIdle
    /\ second = SecondNone
    /\ names = NamesIdle
    /\ \E d \in [{FieldOrder[k] : k \in 1..Len(FieldOrder)} -> FieldValues] :
           shape = [ShapeIdle EXCEPT !.data = d]

SpecShape == InitShape /\ [][ReadResponse]_vars

\* ------------------------------------------------------------ properties
\* fetchLibrary has returned and POST /run has computed the delta
Listed == pc \in {"batch", "finish"} \/ (pc = "done" /\ job = "completed")

CatalogIds == {r.id : r \in catalog}

\* C1 (SpecList): in incremental mode (fullSync false, known ids non-empty), when
\* pages 1 and 2 hold only known ids, fetchLibrary requests at most 3 pages,
\* whatever the listing holds after them.
C1_EarlyStopWithinThreePages ==
    (/\ pc # "idle"
     /\ ~shouldFullSync
     /\ oldIds0 # {}
     /\ Range(PageAt(1)) \subseteq oldIds0
     /\ Range(PageAt(2)) \subseteq oldIds0)
    => lister.reqPages <= 3

\* C1 witness: page 0 brings a new item, pages 1 and 2 are non-empty and all
\* known, and the lister has returned after exactly 3 requests by the early stop.
C1_Witness ==
    /\ Listed
    /\ ~shouldFullSync
    /\ oldIds0 # {}
    /\ ~(Range(PageAt(0)) \subseteq oldIds0)
    /\ PageAt(1) # <<>> /\ Range(PageAt(1)) \subseteq oldIds0
    /\ PageAt(2) # <<>> /\ Range(PageAt(2)) \subseteq oldIds0
    /\ lister.earlyStopped
    /\ lister.reqPages = 3

\* C2 (SpecList): with full sync and no limit the early stop never applies: the
\* lister requests pages 0, 1, 2, ... up to and including the first page that
\* returns zero items, and returns exactly the items of the pages before it.
C2_FullSyncReadsToFirstEmptyPage ==
    /\ (shouldFullSync => ~lister.earlyStopped)
    /\ (Listed /\ shouldFullSync /\ opts.limit = 0)
       => /\ lister.reqPages = PagesBeforeEmpty(0) + 1
          /\ lister.page = PagesBeforeEmpty(0)
          /\ lister.allItems = ListedItems

\* C2 witness: a full sync was asked for on a non-empty catalog, pages 0 and 1
\* are non-empty and all known, and the lister went on to a third page and the
\* empty page after it.
C2_Witness ==
    /\ Listed
    /\ opts.fullSync /\ opts.limit = 0
    /\ oldIds0 # {}
    /\ PageAt(0) # <<>> /\ Range(PageAt(0)) \subseteq oldIds0
    /\ PageAt(1) # <<>> /\ Range(PageAt(1)) \subseteq oldIds0
    /\ ~(Range(PageAt(2)) \subseteq oldIds0)
    /\ lister.reqPages = 4

\* C3 as claimed (SpecList): with no limit, the ids handed to downloadBatch are
\* the ids of the remote listing minus the ids known at job start.
C3_DeltaIsRemoteMinusKnown ==
    (Listed /\ opts.limit = 0) => Range(newItems) = Range(ListedItems) \ oldIds0

\* C3 amended (SpecList): with no limit, the ids handed to downloadBatch are the
\* ids of the items fetchLibrary returned minus the ids known at job start; in a
\* full sync that is the ids of the remote listing minus the known ids, however
\* the listing is split into pages.
C3_DeltaIsFetchedMinusKnown ==
    (Listed /\ opts.limit = 0)
    => /\ Range(newItems) = Range(lister.allItems) \ oldIds0
       /\ shouldFullSync => Range(newItems) = Range(ListedItems) \ oldIds0

\* C3 witness: an incremental run whose fetched pages hold a known and a new
\* item, so the filter dropped one and kept one.
C3_Witness ==
    /\ Listed
    /\ opts.limit = 0
    /\ ~shouldFullSync
    /\ Range(lister.allItems) \cap oldIds0 # {}
    /\ newItems # <<>>
    /\ Len(newItems) < Len(lister.allItems)

\* the run before the current one was cut short by a restart
AfterAbort == run >= 2 /\ Len(runLog) >= run - 1 /\ runLog[run - 1].status = "aborted"

\* C4 as claimed (SpecResume): in the run that follows an abandoned run, the
\* delta (no limit set) contains every remote item whose id is not in the Catalog.
\* Stated for a Catalog whose rows were all written by the abandoned run.
C4_ResumeDeltaCoversRemote ==
    (AfterAbort /\ Listed /\ opts.limit = 0 /\ \A r \in catalog : r.data > 0)
    => (Range(ListedItems) \ oldIds0) \subseteq Range(newItems)

\* C4 amended (SpecResume): a restart leaves the Catalog rows and the files as
\* written; the next run reads exactly those rows as its known ids; its delta (no
\* limit set) is the fetched items whose id is not in the Catalog, which in a full
\* sync is every remote item not in the Catalog; and a full sync that completes
\* with no failed item and no failed Catalog write leaves every remote item that
\* has an audio_url in the Catalog.
C4_ResumeAfterAbandonment ==
    [][ /\ (pc \in {"list", "batch", "finish"} /\ pc' = "idle")
           => (catalog' = catalog /\ files' = files)
        /\ (pc # "list" /\ pc' = "list") => oldIds0' = CatalogIds
        /\ (AfterAbort' /\ Listed' /\ opts.limit = 0)
           => /\ Range(newItems') = Range(lister'.allItems) \ oldIds0'
              /\ shouldFullSync'
                 => (Range(ListedItems) \ oldIds0') \subseteq Range(newItems')
        /\ (AfterAbort' /\ pc' = "done" /\ job' = "completed" /\ shouldFullSync'
            /\ opts.limit = 0 /\ progress'.failed = 0 /\ lostIdx' = {})
           => (Range(ListedItems) \ noUrl) \subseteq CatalogIds'
      ]_vars

\* C4 witness: the first run started on an empty Catalog and was cut short after
\* one of its downloads was written to the Catalog; the next run has read that
\* row and has handed the remaining items to downloadBatch.
C4_Witness ==
    /\ AfterAbort
    /\ run = 2
    /\ pc = "batch"
    /\ oldIds0 # {}
    /\ \A r \in catalog : r.data > 0
    /\ newItems # <<>>
    /\ opts.limit = 0

\* C5 as claimed (SpecResume): of two completed runs that follow one another on
\* the same remote listing, the second reports downloaded = 0, failed = 0 and the
\* total of the first. Stated for runs with no limit whose Catalog writes all
\* succeeded.
C5_SecondRunReportsNothing ==
    \A k \in 2..Len(runLog) :
        (/\ runLog[k - 1].status = "completed"
         /\ runLog[k].status = "completed"
         /\ opts.limit = 0
         /\ runLog[k - 1].writeErrors = 0)
        => /\ runLog[k].downloaded = 0
           /\ runLog[k].failed = 0
           /\ runLog[k].total = runLog[k - 1].total

\* C5 amended (SpecResume): the same, for runs with the same options and no
\* limit, when the first run completed with failed = 0 and every Catalog write of
\* its downloads succeeded.
C5_IdempotentRerun ==
    \A k \in 2..Len(runLog) :
        (/\ runLog[k - 1].status = "completed"
         /\ runLog[k].status = "completed"
         /\ opts.limit = 0
         /\ runLog[k - 1].failed = 0
         /\ runLog[k - 1].writeErrors = 0)
        => /\ runLog[k].downloaded = 0
           /\ runLog[k].failed = 0
           /\ runLog[k].total = runLog[k - 1].total

\* C5 witness: a first run that downloaded two items without failure, then a
\* second completed run.
C5_Witness ==
    /\ Len(runLog) = 2
    /\ opts.limit = 0
    /\ runLog[1].status = "completed"
    /\ runLog[1].downloaded >= 2
    /\ runLog[1].failed = 0
    /\ runLog[1].writeErrors = 0
    /\ runLog[2].status = "completed"

\* C6 (Spec): for format 'both', when the mp3 fetch succeeds and the wav fetch
\* returns a 4xx status, the step that ends downloadItem adds one to downloaded,
\* leaves failed and errors as they are, returns success, and has recorded exactly
\* one per-format error, the soft one for wav.
C6_PartialFormatSuccess ==
    [][ \A w \in Workers :
          (/\ wk[w].pc = "fetch"
           /\ wk'[w].pc = "ret"
           /\ opts.format = "both"
           /\ wk'[w].outcomes = <<"ok", "4xx">>)
          => /\ progress'.downloaded = progress.downloaded + 1
             /\ progress'.failed = progress.failed
             /\ progress'.skipped = progress.skipped
             /\ errors' = errors
             /\ wk'[w].success
             /\ wk'[w].formatErrors = <<[fmt |-> "wav", kind |-> "soft"]>>
      ]_vars

\* C6 witness: downloadItem has returned for an item whose mp3 fetch succeeded
\* and whose wav fetch returned 4xx.
C6_Witness ==
    \E w \in Workers :
        /\ wk[w].pc = "ret"
        /\ opts.format = "both"
        /\ wk[w].outcomes = <<"ok", "4xx">>
        /\ progress.downloaded >= 1

\* C7 (Spec): when no requested format of an item succeeded, the step that ends
\* downloadItem adds one to failed, appends one entry with the item's id to
\* errors, leaves downloaded as it is and returns failure; the worker then writes
\* nothing to the Catalog; and when the job completes the queue is empty and every
\* entry of the batch was passed to downloadItem.
C7_AllFormatsFailedIsolated ==
    [][ /\ \A w \in Workers :
             (/\ wk[w].pc = "fetch"
              /\ wk'[w].pc = "ret"
              /\ "ok" \notin Range(wk'[w].outcomes))
             => /\ progress'.failed = progress.failed + 1
                /\ progress'.downloaded = progress.downloaded
                /\ errors' = Append(errors, newItems[wk[w].item])
                /\ ~wk'[w].success
        /\ \A w \in Workers :
             (wk[w].pc = "ret" /\ ~wk[w].success /\ wk'[w] # wk[w])
             => (catalog' = catalog /\ existingIds' = existingIds)
        /\ (pc' = "done" /\ job' = "completed")
           => /\ queue' = <<>>
              /\ \A i \in 1..Len(newItems') : taken'[i] = 1
      ]_vars

\* C7 witness: a batch of four entries has completed with at least one failed
\* item and at least one downloaded item.
C7_Witness ==
    /\ pc = "done" /\ job = "completed"
    /\ Len(newItems) = 4
    /\ progress.failed >= 1
    /\ Len(errors) = progress.failed
    /\ progress.downloaded >= 1

InQueue(i) == \E k \in 1..Len(queue) : queue[k] = i

Busy(w) == wk[w].pc \in {"verify", "fetch", "ret"}

\* C8 (Spec): every entry of the batch is either still in the queue and was never
\* passed to downloadItem, or is off the queue and was passed to it exactly once;
\* no entry is in the queue twice, no two workers hold the same entry, and when
\* the job completes every entry has been taken.
C8_NoDuplicateWork ==
    (pc = "batch" \/ (pc = "done" /\ job = "completed"))
    => /\ Len(taken) = Len(newItems)
       /\ \A i \in 1..Len(newItems) : taken[i] = (IF InQueue(i) THEN 0 ELSE 1)
       /\ \A k, l \in 1..Len(queue) : queue[k] = queue[l] => k = l
       /\ \A v, w \in Workers : (Busy(v) /\ Busy(w) /\ wk[v].item = wk[w].item) => v = w
       /\ pc = "done" => \A i \in 1..Len(newItems) : taken[i] = 1

\* C8 witness: four entries, all three workers are fetching, and one of them
\* holds the fourth entry, taken after it finished an earlier one.
C8_Witness ==
    /\ pc = "batch"
    /\ Len(newItems) = 4
    /\ queue = <<>>
    /\ \A w \in Workers : wk[w].pc = "fetch"
    /\ \E w \in Workers : wk[w].item = 4

\* C9 (Spec): at every point of a run count() is the number of ids known at job
\* start plus the number of distinct ids whose db.insert returned; an insert of an
\* id not in the Catalog grows the count by one, an insert of an id already in it
\* leaves the count as it is and replaces that row's payload, and no insert
\* touches another id's row.
C9_ConcurrentUpsertSafe ==
    [][ /\ pc' # "idle"
           => Cardinality(catalog') =
                 Cardinality(oldIds0') + Cardinality({newItems'[i] : i \in insertedIdx'})
        /\ \A w \in Workers :
             (wk[w].pc = "ret" /\ wk[w].item \in insertedIdx' \ insertedIdx)
             => LET id == newItems[wk[w].item]
                IN  /\ \A r \in catalog' : r.id = id => r.data = wk[w].item
                    /\ id \in CatalogIds'
                    /\ {r \in catalog' : r.id # id} = {r \in catalog : r.id # id}
                    /\ Cardinality(catalog') =
                          Cardinality(catalog) + (IF id \in CatalogIds THEN 0 ELSE 1)
      ]_vars

\* C9 witness: three inserts have returned, two of them for the same id, and the
\* count has grown by two.
C9_Witness ==
    /\ pc = "batch"
    /\ Cardinality(insertedIdx) = 3
    /\ \E i, j \in insertedIdx : i # j /\ newItems[i] = newItems[j]
    /\ Cardinality(catalog) = Cardinality(oldIds0) + 2

TargetFiles(id) == {<<id, Formats(opts.format)[k]>> : k \in 1..Len(Formats(opts.format))}

\* C10 (Spec): with verifyFiles, downloadItem returns from the file check only
\* when every target file of the item is on disk, and then it adds one to skipped
\* and has made no request; a check that finds a file missing sends the item to
\* the format loop from its first format, with the counters untouched, and an item
\* that goes through the format loop makes one request per requested format.
C10_VerificationSkip ==
    [][ \A w \in Workers :
          /\ (wk[w].pc = "verify" /\ wk'[w].pc = "ret")
             => /\ TargetFiles(newItems[wk[w].item]) \subseteq files
                /\ progress' = [progress EXCEPT !.skipped = @ + 1]
                /\ wk'[w].outcomes = <<>>
                /\ wk'[w].success
                /\ files' = files
          /\ (/\ wk[w].pc = "verify"
              /\ wk'[w] # wk[w]
              /\ <<newItems[wk[w].item], Formats(opts.format)[wk[w].fi]>> \notin files)
             => /\ wk'[w].pc = "fetch"
                /\ wk'[w].fi = 1
                /\ wk'[w].outcomes = <<>>
                /\ progress' = progress
          /\ (/\ wk[w].pc = "verify"
              /\ wk'[w] # wk[w]
              /\ TargetFiles(newItems[wk[w].item]) \subseteq files)
             => /\ wk'[w].pc \in {"verify", "ret"}
                /\ wk'[w].outcomes = <<>>
          /\ (wk[w].pc = "fetch" /\ wk'[w].pc = "ret")
             => Len(wk'[w].outcomes) = Len(Formats(opts.format))
      ]_vars

\* C10 witness: with verifyFiles and format 'both', one item was skipped because
\* both its files are on disk, and another item went through the download.
C10_Witness ==
    /\ opts.verifyFiles
    /\ opts.format = "both"
    /\ progress.downloaded = 1
    /\ progress.skipped = 1
    /\ \E w \in Workers :
          /\ wk[w].pc = "ret"
          /\ wk[w].success
          /\ wk[w].outcomes = <<>>
          /\ newItems[wk[w].item] \notin noUrl

\* C11 as claimed (Spec): with verifyFiles, when a run completes without a failed
\* request, every fetched item that has a record in the Catalog and an audio_url
\* has all its target files on disk: a file that was missing has been downloaded
\* again. Stated for runs with no limit.
C11_VerifyFilesRedownloads ==
    (pc = "done" /\ job = "completed" /\ opts.verifyFiles /\ opts.limit = 0 /\ faults = 0)
    => \A id \in (Range(lister.allItems) \cap oldIds0) \ noUrl :
          TargetFiles(id) \subseteq files

\* C12 (SpecList): while fetchLibrary runs the Catalog and the download directory
\* are not written; the step in which a page request fails (non-2xx response, or
\* transport error after the retries) ends the job in state failed with the
\* Catalog holding exactly the ids read at job start, no delta computed, no queue
\* entry taken and every worker never started; and nothing happens after it.
C12_ListingFailureAborts ==
    [][ /\ pc = "list" => (catalog' = catalog /\ files' = files)
        /\ (pc = "list" /\ faults' = faults + 1)
           => /\ job' = "failed"
              /\ pc' = "done"
              /\ getAllIds(catalog') = oldIds0'
              /\ newItems' = <<>>
              /\ queue' = <<>>
              /\ taken' = <<>>
              /\ progress' = ProgressInit
              /\ \A w \in Workers : wk'[w] = WorkerIdle
        /\ job = "failed" => vars' = vars
      ]_vars

\* C12 witness: an incremental run whose first page was fetched and whose second
\* page request failed.
C12_Witness ==
    /\ job = "failed"
    /\ oldIds0 # {}
    /\ lister.allItems # <<>>
    /\ lister.reqPages = 2
    /\ newItems = <<>>

\* C13 (SpecRetry): one call of retryFetch makes at most maxRetries attempts; it
\* returns the first response it receives, whatever its status, and every attempt
\* before that one failed at transport level; it throws only after maxRetries
\* attempts that all failed at transport level, and throws the error of the last.
C13_BoundedRetry ==
    /\ rf.calls <= maxRetries
    /\ rf.attempt <= maxRetries
    /\ \A k \in 1..rf.calls : k < rf.calls => rf.script[k] \in TransportErrors
    /\ rf.pc = "returned"
       => /\ rf.script[rf.calls] \in Responses
          /\ rf.result = rf.script[rf.calls]
    /\ rf.pc = "thrown"
       => /\ rf.calls = maxRetries
          /\ rf.script[rf.calls] \in TransportErrors
          /\ rf.result = rf.script[maxRetries]
    /\ rf.pc = "sleep" => rf.script[rf.calls] \in TransportErrors

\* C13 witness: three attempts failed, the first and the last with different
\* errors, a fourth attempt would have got a response, and the call has thrown.
C13_Witness ==
    /\ rf.pc = "thrown"
    /\ rf.calls = 3
    /\ rf.script[1] # rf.script[3]
    /\ rf.script[4] = "2xx"

\* number of POST /run handlers of the user that are between jobManager.create
\* and the end of their run
RunningJobs == (IF FirstRunning THEN 1 ELSE 0) + (IF second.pc = "list" THEN 1 ELSE 0)

\* C14 as claimed (SpecJobs): at no time are two runs of the same user under way:
\* a POST /run that arrives while the user's job is running starts no second run
\* on the user's Catalog and download directory.
C14_OneJobPerUser == RunningJobs <= 1

\* C15 (SpecMigrate): when the user has no library.json, migrateJsonToDb returns
\* without an error and with count 0, has written no row, and leaves the Catalog
\* as it found it; a migration that reports rows only does so after writing them.
C15_LegacyMigrationNoOp ==
    [][ /\ (~migration.called /\ migration'.called /\ legacy.state = "ENOENT")
           => /\ ~migration'.threw
              /\ migration'.count = 0
              /\ migration'.writes = 0
              /\ catalog' = catalog
              /\ job' = "running"
        /\ (~migration.called /\ migration'.called /\ migration'.writes > 0)
           => legacy.state \in {"ok", "nocopy"}
      ]_vars

\* C15 witness: a run on a Catalog that holds a row, for a user without
\* library.json, has gone through the migration step.
C15_Witness ==
    /\ legacy.state = "ENOENT"
    /\ migration.called
    /\ catalog # {}
    /\ pc = "list"

InBatch == pc = "batch" \/ (pc = "done" /\ job = "completed")

\* ids of the entries counted as downloaded
DownloadedIds == {newItems[i] : i \in {j \in 1..Len(newItems) : counted[j].downloaded > 0}}

\* entry i was counted as skipped by the file check of verifyFiles
VerifiedEntry(i) == opts.verifyFiles /\ counted[i].skipped > 0 /\ newItems[i] \notin noUrl

VerifiedIds == {newItems[i] : i \in {j \in 1..Len(newItems) : VerifiedEntry(j)}}

\* entry i is held by a worker whose downloadItem has returned and that has not
\* yet gone on to the next queue entry
Returning(i) == \E w \in Workers : wk[w].pc = "ret" /\ wk[w].item = i

\* C17 as claimed (Spec): at every point of a run the ids added to the Catalog
\* since job start are ids of items counted as downloaded, and every item counted
\* as downloaded whose upsert raised no error is in the Catalog and in the known-id
\* set once its worker has gone on to the next queue entry.
C17_CatalogWritesFollowDownloads ==
    InBatch
    => /\ (CatalogIds \ oldIds0) \subseteq DownloadedIds
       /\ \A i \in 1..Len(newItems) :
            (counted[i].downloaded > 0 /\ i \notin lostIdx /\ ~Returning(i))
            => (newItems[i] \in CatalogIds /\ newItems[i] \in existingIds)

\* C17 amended (Spec): the ids added to the Catalog since job start are ids of
\* items counted as downloaded or, with verifyFiles, of items counted as skipped
\* because all their files are on disk; every item counted in one of these two
\* ways whose upsert raised no error is in the Catalog and in the known-id set
\* once its worker has gone on to the next queue entry; no other item is written.
C17_CatalogWritesFollowSuccess ==
    InBatch
    => /\ (CatalogIds \ oldIds0) \subseteq (DownloadedIds \cup VerifiedIds)
       /\ \A i \in insertedIdx :
            \/ counted[i] = [NotCounted EXCEPT !.downloaded = 1]
            \/ /\ counted[i] = [NotCounted EXCEPT !.skipped = 1]
               /\ opts.verifyFiles
               /\ TargetFiles(newItems[i]) \subseteq files
       /\ \A i \in 1..Len(newItems) :
            (/\ counted[i].downloaded > 0 \/ VerifiedEntry(i)
             /\ i \notin lostIdx
             /\ ~Returning(i))
            => (newItems[i] \in CatalogIds /\ newItems[i] \in existingIds)

\* C17 witness: one entry was downloaded, another was skipped by the file check,
\* both workers have gone on, and both ids are new rows of the Catalog.
C17_Witness ==
    /\ pc = "batch"
    /\ \E i, j \in insertedIdx :
          /\ counted[i].downloaded = 1
          /\ counted[j].skipped = 1
          /\ ~Returning(i) /\ ~Returning(j)
          /\ newItems[i] # newItems[j]
          /\ {newItems[i], newItems[j]} \subseteq CatalogIds \ oldIds0

\* the increments made for one entry
Increments(c) == c.downloaded + c.failed + c.skipped

\* C18 (Spec): during downloadBatch and at completion, total is the length of the
\* delta; for each entry at most one of downloaded, failed, skipped was
\* incremented, at most once, and only after the entry was taken; each counter is
\* the number of entries counted that way, so downloaded + failed + skipped <=
\* total; an entry whose downloadItem has returned has been counted; and when the
\* job completes every entry has been counted exactly once and the sum is total.
C18_PerItemAccounting ==
    InBatch
    => LET n == Len(newItems)
           With(f(_)) == Cardinality({i \in 1..n : f(counted[i]) = 1})
           D(c) == c.downloaded
           F(c) == c.failed
           S(c) == c.skipped
       IN  /\ progress.total = n
           /\ Len(counted) = n
           /\ \A i \in 1..n : Increments(counted[i]) <= 1
           /\ \A i \in 1..n : Increments(counted[i]) = 1 => taken[i] = 1
           /\ \A i \in 1..n :
                (taken[i] = 1 /\ ~\E w \in Workers : wk[w].pc \in {"verify", "fetch"}
                                                      /\ wk[w].item = i)
                => Increments(counted[i]) = 1
           /\ progress.downloaded = With(D)
           /\ progress.failed = With(F)
           /\ progress.skipped = With(S)
           /\ progress.downloaded + progress.failed + progress.skipped <= progress.total
           /\ pc = "done"
              => /\ \A i \in 1..n : Increments(counted[i]) = 1
                 /\ progress.downloaded + progress.failed + progress.skipped
                       = progress.total

\* C18 witness: a job with four entries has completed with a downloaded, a
\* failed and a skipped item.
C18_Witness ==
    /\ pc = "done" /\ job = "completed"
    /\ Len(newItems) = 4
    /\ progress.downloaded >= 1
    /\ progress.failed >= 1
    /\ progress.skipped >= 1

\* page p of the listing is not empty and holds only ids of the known-id set
AllKnownPage(p) == PageAt(p) # <<>> /\ Range(PageAt(p)) \subseteq existingIds

\* number of all-known pages that follow one another up to page p - 1
RECURSIVE TrailingKnown(_)
TrailingKnown(p) == IF p > 0 /\ AllKnownPage(p - 1) THEN 1 + TrailingKnown(p - 1) ELSE 0

\* C19 (SpecList): in incremental mode, a fetched page with an id that is not
\* known sets the counter to zero and does not stop the listing early; the
\* counter is always the number of all-known pages that follow one another up to
\* the last fetched page; and the listing stops early only when the last two
\* fetched pages were both all-known.
C19_ConsecutiveCounter ==
    [][ (pc = "list" /\ lister'.page = lister.page + 1 /\ SmartPagination)
        => /\ ~AllKnownPage(lister.page)
              => (lister'.consecutiveExistingPages = 0 /\ ~lister'.earlyStopped)
           /\ lister'.consecutiveExistingPages = TrailingKnown(lister'.page)
           /\ lister'.earlyStopped
              => /\ lister.page >= 1
                 /\ AllKnownPage(lister.page)
                 /\ AllKnownPage(lister.page - 1)
      ]_vars

\* C19 witness: an incremental run met an all-known page, a page with a new
\* item and another all-known page, did not stop early and went on to a fourth
\* request.
C19_Witness ==
    /\ Listed
    /\ ~shouldFullSync /\ oldIds0 # {}
    /\ opts.limit = 0
    /\ AllKnownPage(0)
    /\ PageAt(1) # <<>> /\ ~AllKnownPage(1)
    /\ AllKnownPage(2)
    /\ ~lister.earlyStopped
    /\ lister.reqPages = 4

\* C20 (SpecMigrate): once a run has started, the known ids are the ids of the
\* Catalog as the migration left it, the run uses full sync iff the caller's
\* fullSync flag is set or that id set is empty, and with an empty id set the
\* early stop is never applied: the lister returns only after an empty page, in
\* which case it has read every page before it, or at the limit or the page cap
\* of the limit.
C20_FullSyncDecision ==
    (pc \in {"list", "batch", "finish"})
    => /\ oldIds0 = getAllIds(catalog)
       /\ legacy.state = "ok" => Range(legacy.clips) \subseteq oldIds0
       /\ shouldFullSync = (opts.fullSync \/ oldIds0 = {})
       /\ oldIds0 = {}
          => /\ ~lister.earlyStopped
             /\ lister.consecutiveExistingPages = 0
             /\ Listed
                => \/ /\ PageAt(lister.page) = <<>>
                      /\ lister.allItems = ListedItems
                      /\ lister.reqPages = PagesBeforeEmpty(0) + 1
                   \/ /\ opts.limit # 0
                      /\ \/ Len(lister.allItems) >= opts.limit
                         \/ lister.page >= CeilDiv(opts.limit, PageSize)

\* C20 witness: the caller did not ask for a full sync, there is no legacy file
\* and the Catalog is empty; the run used full sync and read two pages that
\* repeat one id, and the empty page after them.
C20_Witness ==
    /\ Listed
    /\ ~opts.fullSync
    /\ opts.limit = 0
    /\ legacy.state = "ENOENT"
    /\ oldIds0 = {}
    /\ shouldFullSync
    /\ Len(remote) = 2 /\ remote[1] = remote[2]
    /\ lister.reqPages = 3

\* entries of the delta that a worker has passed to downloadItem
TakenCount == Cardinality({i \in DOMAIN taken : taken[i] >= 1})

\* C21 (SpecLimit): when limit is set, in full and in incremental mode alike, the
\* lister requests at most ceil(limit / 20) pages and has stopped as soon as the
\* items it accumulated reach limit; the delta, progress.total and the number of
\* entries handed to downloadItem never exceed limit.
C21_LimitHandling ==
    (opts.limit # 0 /\ pc # "idle")
    => /\ lister.reqPages <= CeilDiv(opts.limit, PageSize)
       /\ Len(lister.allItems) >= opts.limit => ~lister.hasMore
       /\ \A n \in 1..Len(lister.allItems) :
              n < Len(lister.allItems) /\ n >= opts.limit
              => \E p \in 1..lister.page :
                     SumLen(SubSeq(remote, 1, p - 1)) < opts.limit
                     /\ SumLen(SubSeq(remote, 1, p)) = Len(lister.allItems)
       /\ Len(newItems) <= opts.limit
       /\ progress.total <= opts.limit
       /\ TakenCount <= opts.limit
       /\ progress.downloaded + progress.failed + progress.skipped <= opts.limit

\* C21 witness: an incremental run with limit 1 whose first page holds two new
\* items; the lister stopped after that page although the listing goes on, and
\* the delta was cut to one entry, which a worker took.
C21_Witness ==
    /\ pc = "batch"
    /\ opts.limit = 1
    /\ ~shouldFullSync /\ oldIds0 # {}
    /\ Len(remote) > lister.reqPages
    /\ Len(Delta(lister.allItems, oldIds0)) = 2
    /\ Len(newItems) = 1
    /\ progress.total = 1
    /\ TakenCount = 1

\* entries that are inside downloadItem: passed to it, no counter incremented yet
InFlight == {i \in DOMAIN taken : taken[i] >= 1 /\ counted[i] = NotCounted}

\* workers that are inside downloadItem for entry i
Holders(i) == {w \in Workers : wk[w].pc \in {"verify", "fetch"} /\ wk[w].item = i}

\* C22 (Spec): during downloadBatch at most `concurrency` entries are inside
\* downloadItem at once, each of them in exactly one worker; a worker is at one
\* format of its item, the formats before it have ended and the later ones have
\* not begun, and a step ends the fetch of at most one format of one item.
C22_BoundedConcurrency ==
    [][ pc' = "batch"
        => /\ Cardinality(InFlight') <= concurrency
           /\ \A i \in InFlight' : Cardinality(Holders(i)') = 1
           /\ \A w \in Workers :
                wk'[w].pc = "fetch"
                => /\ wk'[w].fi \in 1..Len(Formats(opts.format))
                   /\ Len(wk'[w].outcomes) = wk'[w].fi - 1
           /\ pc = "batch"
              => Cardinality({w \in Workers : wk'[w].outcomes # wk[w].outcomes
                                              /\ wk'[w].outcomes # <<>>}) <= 1
           /\ \A w \in Workers :
                (pc = "batch" /\ wk[w].pc = "fetch" /\ wk'[w].outcomes # wk[w].outcomes)
                => \/ wk'[w].outcomes = <<>>
                   \/ /\ Len(wk'[w].outcomes) = Len(wk[w].outcomes) + 1
                      /\ wk'[w].item = wk[w].item
      ]_vars

\* C22 witness: the pool is full, three entries are inside downloadItem and a
\* fourth waits in the queue.
C22_Witness ==
    /\ pc = "batch"
    /\ Cardinality(InFlight) = concurrency
    /\ queue # <<>>
    /\ \A w \in Workers : wk[w].pc = "fetch"

\* every worker has left its loop, nothing is queued and nothing is in flight
Drained ==
    /\ queue = <<>>
    /\ InFlight = {}
    /\ \A w \in Workers : wk[w].pc = "done"

\* C23 (SpecDrain): when every await of downloadItem settles, a batch that has
\* started leads to all workers having left their loops with the queue empty and
\* no entry in flight, and downloadBatch has returned only in such a state.
C23_QueueDrains ==
    /\ (pc = "batch") ~> Drained
    /\ [](((pc = "done" /\ job = "completed" /\ newItems # <<>>) => Drained))

\* C23 witness: a batch of four entries, one more than the pool, has been
\* drained and downloadBatch has returned.
C23_Witness ==
    /\ pc = "done" /\ job = "completed"
    /\ Len(newItems) = concurrency + 1
    /\ Drained
    /\ \A i \in 1..Len(newItems) : taken[i] = 1

\* C24 as claimed (SpecLifecycle): once the request of a job has ended the job is
\* not running: it was marked completed or failed, and marked once.
C24_JobLifecycle ==
    pc = "done"
    => /\ job \in {"completed", "failed"}
       /\ Len(runLog) = run
       /\ runLog[run].status = job

\* C25 as claimed (SpecRemigrate): a run that starts after an earlier run has
\* migrated the user's legacy file performs no bulk upsert from it, and its
\* migration step leaves the ids and the payloads of the Catalog as they were.
C25_MigrationOneTime ==
    [][ (run >= 1 /\ run' = run + 1 /\ legacy.state = "ok")
        => /\ migration'.writes = 0
           /\ catalog' = catalog
      ]_vars

\* the fields of a response body that hold at least one item, by position in FieldOrder
NonEmptyFields(data) == {k \in 1..Len(FieldOrder) : data[FieldOrder[k]].items # <<>>}

\* C26 as claimed (SpecShape): the clips taken from a response are those of the
\* first of the fields clips, songs, data, items that is non-empty, and the page
\* ends the listing only when none of the fields holds an item.
C26_FirstNonEmptyField ==
    shape.pc = "read"
    => LET ne == NonEmptyFields(shape.data)
       IN  /\ ne # {}
              => \E k \in ne : /\ \A l \in ne : k <= l
                               /\ shape.clips = shape.data[FieldOrder[k]].items
           /\ ~shape.hasMore <=> ne = {}

\* C27 (Spec): from the start of a run on, the known-id set only grows and after
\* every step equals the id set of the Catalog: it starts as the ids read from the
\* Catalog, a step adds an id exactly when the upsert of an entry with that id
\* returned, and a step whose upsert threw adds nothing.
C27_KnownIdsTrackCatalog ==
    [][ /\ pc # "idle" => existingIds \subseteq existingIds'
        /\ pc' # "idle" => existingIds' = CatalogIds'
        /\ pc = "idle" /\ pc' = "list"
           => /\ existingIds' = {r.id : r \in catalog}
              /\ oldIds0' = existingIds'
        /\ pc = "batch"
           => /\ existingIds' = existingIds \cup {newItems[i] : i \in insertedIdx' \ insertedIdx}
              /\ \A w \in Workers :
                    (wk[w].pc = "ret" /\ wk'[w] # wk[w] /\ wk[w].success
                       /\ lostIdx' = lostIdx)
                    => /\ wk[w].item \in insertedIdx'
                       /\ newItems[wk[w].item] \in existingIds'
              /\ lostIdx' # lostIdx => existingIds' = existingIds
      ]_vars

\* C27 witness: a run that began with a non-empty Catalog is in its batch; one
\* upsert has returned and one has thrown, and the known-id set is the ids read
\* at the start and the id of the first.
C27_Witness ==
    /\ pc = "batch"
    /\ oldIds0 # {}
    /\ Cardinality(insertedIdx) = 1
    /\ Cardinality(lostIdx) = 1
    /\ existingIds = oldIds0 \cup {newItems[i] : i \in insertedIdx}
    /\ existingIds # oldIds0
    /\ existingIds = CatalogIds

\* ids with a media file in the download directory
OnDisk == {f[1] : f \in files}

\* C28 (SpecResume): a step in which the upsert of a downloaded entry throws leaves
\* the run in its batch with the job running, writes neither the Catalog nor the
\* known-id set, and changes no counter recorded for that entry (downloaded,
\* failed and the error list stay; skipped moves only for the entry taken next);
\* a run with such a step still takes and accounts every entry before it
\* completes; and a later run without limit has in its delta every id it lists
\* whose file is on disk from an earlier run and which the Catalog does not hold.
C28_UpsertFailureContained ==
    [][ /\ (pc = "batch" /\ lostIdx' \ lostIdx # {})
           => /\ pc' = "batch" /\ job' = "running" /\ job = "running"
              /\ catalog' = catalog
              /\ existingIds' = existingIds
              /\ \A i \in lostIdx' \ lostIdx :
                    /\ counted'[i] = counted[i]
                    /\ Increments(counted[i]) = 1
                    /\ newItems'[i] = newItems[i]
              /\ progress'.downloaded = progress.downloaded
              /\ progress'.failed = progress.failed
              /\ progress'.total = progress.total
              /\ errors' = errors
              /\ progress'.skipped - progress.skipped
                    = Cardinality({j \in 1..Len(newItems) : counted'[j] # counted[j]})
              /\ \A j \in 1..Len(newItems) : counted'[j] # counted[j] => taken[j] = 0
        /\ (pc = "batch" /\ pc' = "done" /\ lostIdx # {})
           => /\ job' = "completed"
              /\ queue = <<>>
              /\ \A i \in 1..Len(newItems) : taken[i] = 1 /\ Increments(counted[i]) = 1
        /\ (pc = "list" /\ pc' \in {"batch", "finish"} /\ run >= 2 /\ opts.limit = 0)
           => \A id \in (OnDisk \cap Range(lister.allItems)) \ oldIds0 :
                 id \in Range(newItems')
      ]_vars

\* C28 witness: the first run completed with an upsert that threw; the second run
\* lists the id of that entry, which is on disk and not in the Catalog, has it in
\* its delta and a worker is fetching it again.
C28_Witness ==
    /\ run = 2
    /\ pc = "batch"
    /\ runLog[1].status = "completed"
    /\ runLog[1].writeErrors >= 1
    /\ ~opts.verifyFiles
    /\ \E w \in Workers :
          /\ wk[w].pc = "fetch"
          /\ ItemOf(w) \in OnDisk
          /\ ItemOf(w) \notin oldIds0

====
